---- MODULE Spec2Model ----
(***************************************************************************)
(* Model of cnexp/redo.py: the dispatcher that bridges the redo build tool *)
(* and the slurm scheduler (redo_ifchange_slurm and its helpers).          *)
(*                                                                         *)
(* Representation of Python values:                                        *)
(*   - a str is a sequence of tokens (atomic pieces of text), so that      *)
(*     split, join, formatting and path parsing are computed, not assumed; *)
(*   - None-or-value is a set with at most one element: None is {} and a   *)
(*     value v is {v};                                                     *)
(*   - an argument that may be a scalar or a list carries the answer of    *)
(*     isinstance(x, list) in the field "list";                            *)
(*   - a pathlib.Path is a record of its root flag and its parts;          *)
(*   - os.environ is a function from variable names to values.             *)
(* Every subprocess the code starts is appended to the history variable    *)
(* calls together with the result the environment gave it.                 *)
(***************************************************************************)
EXTENDS Integers, Sequences, FiniteSets, TLC

(* ------------------------------ bounds -------------------------------- *)

\* longest target list the caller passes
MaxTargets == 2

\* most non-empty answers the scheduler gives to the status query
MaxPolls == 1

(* ------------------------ Python value helpers ------------------------ *)

None == {}

Some(v) == {v}

Get(o) == CHOOSE v \in o : TRUE

\* a one-token str
S(t) == <<t>>

Scalar(o) == [list |-> FALSE, val |-> o]

List(s) == [list |-> TRUE, val |-> s]

Range(s) == {s[i] : i \in DOMAIN s}

\* [x] * n
Repeat(x, n) == [i \in 1..n |-> x]

Min(a, b) == IF a < b THEN a ELSE b

\* str.split(sep): the pieces between the occurrences of sep, empty pieces kept
RECURSIVE str_split(_, _)
str_split(s, sep) ==
    IF \A i \in DOMAIN s : s[i] # sep
    THEN <<s>>
    ELSE LET i == CHOOSE k \in DOMAIN s :
                      s[k] = sep /\ \A j \in 1..(k - 1) : s[j] # sep
         IN  <<SubSeq(s, 1, i - 1)>> \o str_split(SubSeq(s, i + 1, Len(s)), sep)

\* sep.join(list)
RECURSIVE str_join(_, _)
str_join(sep, list) ==
    IF list = <<>> THEN <<>>
    ELSE IF Len(list) = 1 THEN list[1]
    ELSE list[1] \o <<sep>> \o str_join(sep, Tail(list))

\* str(n) of an int
str_int(n) == <<ToString(n)>>

\* f"{i:02d}"
fmt_02d(i) == IF i < 10 THEN <<"0", ToString(i)>> ELSE <<ToString(i)>>

(* ----------------------------- pathlib -------------------------------- *)

\* Path(s): the root flag and the parts; empty and "." components are dropped
Path(s) ==
    [root  |-> s # <<>> /\ s[1] = "/",
     parts |-> SelectSeq(str_split(s, "/"), LAMBDA c : c # <<>> /\ c # <<".">>)]

\* str(p), also what subprocess passes for a Path in an argument list
str_path(p) ==
    IF ~p.root /\ p.parts = <<>> THEN <<".">>
    ELSE (IF p.root THEN <<"/">> ELSE <<>>) \o str_join("/", p.parts)

\* the ".." steps of resolve(), on a file system without symbolic links
RECURSIVE collapse(_, _)
collapse(parts, acc) ==
    IF parts = <<>> THEN acc
    ELSE IF Head(parts) = <<"..">>
         THEN collapse(Tail(parts),
                       IF acc = <<>> THEN acc ELSE SubSeq(acc, 1, Len(acc) - 1))
         ELSE collapse(Tail(parts), Append(acc, Head(parts)))

\* the working directory of the dispatcher process
Cwd == Path(<<"/", "work", "/", "proj">>)

\* p.resolve(): absolute, ".." removed
resolve(p) ==
    [root  |-> TRUE,
     parts |-> collapse(IF p.root THEN p.parts ELSE Cwd.parts \o p.parts, <<>>)]

\* p.is_relative_to(w)
is_relative_to(p, w) ==
    /\ p.root = w.root
    /\ Len(w.parts) <= Len(p.parts)
    /\ SubSeq(p.parts, 1, Len(w.parts)) = w.parts

(* ------------------------ pure functions of redo.py ------------------- *)

GpuPartitions ==
    {S("gpu-2080ti"), S("gpu-2080ti-dev"), S("gpu-2080ti-preemptable"),
     S("gpu-v100"), S("gpu-v100-preemptable")}

\* mutant: the last entry of the list, line 217, left out
_is_gpu_partition_short_list(p) ==
    \E g \in {S("gpu-2080ti"), S("gpu-2080ti-dev"), S("gpu-2080ti-preemptable"),
              S("gpu-v100")} : p = Some(g)

\* mutant: line 215 not commented out
_is_gpu_partition_with_interactive(p) ==
    \E g \in {S("gpu-2080ti"), S("gpu-2080ti-dev"), S("gpu-2080ti-preemptable"),
              S("gpu-2080ti-interactive"), S("gpu-v100"), S("gpu-v100-preemptable")} :
        p = Some(g)

\* p in [...]: None and unknown names are not in the list
_is_gpu_partition(p) == \E g \in GpuPartitions : p = Some(g)

\* zip(list, bools) keeping the entries whose bool is true; zip stops at the
\* shorter of the two
RECURSIVE zip_filter(_, _)
zip_filter(l, bools) ==
    IF l = <<>> \/ bools = <<>> THEN <<>>
    ELSE (IF Head(bools) THEN <<Head(l)>> ELSE <<>>)
         \o zip_filter(Tail(l), Tail(bools))

_redo_filter_list(list_maybe, bools) ==
    IF ~list_maybe.list THEN list_maybe
    ELSE List(zip_filter(list_maybe.val, bools))

\* mutant: the exit code of redo-ood is not looked at
_redo_ood_list_ignoring_exit(deplist, ood_proc) ==
    [i \in DOMAIN deplist |->
        str_path(deplist[i]) \in Range(str_split(ood_proc.stdout, "\n"))]

\* deplist: a sequence of Paths; ood_proc: the finished redo-ood process
_redo_ood_list(deplist, ood_proc) ==
    IF ood_proc.returncode = 0
    THEN LET ood_list == str_split(ood_proc.stdout, "\n")
         IN  [i \in DOMAIN deplist |-> str_path(deplist[i]) \in Range(ood_list)]
    ELSE [i \in DOMAIN deplist |-> TRUE]

\* redo(deplist, exe): the argument list handed to subprocess.call
redo_argv(deplist, exe) ==
    <<S(exe)>> \o (IF ~deplist.list THEN <<deplist.val>> ELSE deplist.val)

\* a scalar argument repeated for every target, a list argument as it is
broadcast(x, n) == IF ~x.list THEN Repeat(x.val, n) ELSE x.val

\* mutant: the generated job names count from one
job_names_from_one(names, n) ==
    IF ~names.list /\ names.val = None
    THEN [i \in 1..n |-> Some(<<"redo">> \o fmt_02d(i))]
    ELSE broadcast(names, n)

\* the job names: generated when names is None
job_names(names, n) ==
    IF ~names.list /\ names.val = None
    THEN [i \in 1..n |-> Some(<<"redo">> \o fmt_02d(i - 1))]
    ELSE broadcast(names, n)

\* the options of one submission, before --job-name
sbatch_args(part, n_cpu, m, t) ==
       (IF part # None THEN <<S("--partition"), Get(part)>> ELSE <<>>)
    \o (IF n_cpu # None THEN <<S("--cpus-per-task"), str_int(Get(n_cpu))>> ELSE <<>>)
    \o (IF m # None THEN <<S("--mem"), Get(m)>> ELSE <<>>)
    \o (IF t # None THEN <<S("--time"), Get(t)>> ELSE <<>>)
    \o (IF _is_gpu_partition(part) THEN <<S("--gres=gpu:1")>> ELSE <<>>)

sbatch_argv(name, part, n_cpu, m, t) ==
    <<S("sbatch")>> \o sbatch_args(part, n_cpu, m, t) \o <<S("--job-name"), Get(name)>>

\* the job script fed to sbatch on stdin
job_script(dep) ==
    <<"#!/bin/sh", "\n", "redo-ifchange '">> \o str_path(dep) \o <<"'", "\n">>

StrippedVars == {"REDO_JS_FD", "MAKEFLAGS", "REDO_STATUS_FD", "REDO_DEP_FD"}

\* os.environ.copy() with the four pops
clean_env(env) == [v \in (DOMAIN env) \ StrippedVars |-> env[v]]

\* re.match(r"Submitted batch job (\d+)", stdout): group 1, or None
Digits == {"0", "1", "2", "3", "4", "5", "6", "7", "8", "9"}

\* mutant: output that is no acknowledgement is taken for one with an empty
\* job id, so that the subscript of line 180 never fails
re_match_job_lenient(stdout) ==
    IF /\ Len(stdout) >= 2
       /\ stdout[1] = "Submitted batch job "
       /\ stdout[2] \in Digits
    THEN Some(<<stdout[2]>>)
    ELSE Some(<<>>)

re_match_job(stdout) ==
    IF /\ Len(stdout) >= 2
       /\ stdout[1] = "Submitted batch job "
       /\ stdout[2] \in Digits
    THEN LET last == CHOOSE k \in 2..Len(stdout) :
                         /\ \A j \in 2..k : stdout[j] \in Digits
                         /\ (k = Len(stdout) \/ stdout[k + 1] \notin Digits)
         IN  Some(SubSeq(stdout, 2, last))
    ELSE None

squeue_argv(user, jobs_str, names_str) ==
    <<S("squeue"), S("--noheader"), S("--user"), user, S("--jobs"), jobs_str,
      S("--name"), names_str, S("--states=RUNNING,PENDING,COMPLETING,PREEMPTED")>>

\* number of rounds of zip(names, deplist, partition, n_cpus, mem, time_str)
zip_len(f) ==
    Min(Len(f.names), Min(Len(f.deplist), Min(Len(f.partition),
        Min(Len(f.n_cpus), Min(Len(f.mem), Len(f.time_str))))))

(* ------------------------------- state -------------------------------- *)

VARIABLES
    environ,     \* os.environ of the dispatcher process
    args,        \* the arguments of the call of redo_ifchange_slurm
    pc,          \* where the call is
    err,         \* the exception that ended the call, or None
    deplist,     \* the local name deplist (rebound on line 50)
    partitions,  \* the local name partitions of the cin branch
    is_ood,      \* the result of _redo_ood_list
    frame,       \* the parameters of _slurm_launch_and_wait after lines 106-117
    idx,         \* rounds of the running loop that are finished
    job_ids,     \* the local name job_ids
    running,     \* the processes subprocess.call has started and not yet reaped
    calls,       \* history: every finished subprocess, with its result
    sleeps       \* history: number of time.sleep(0.5) calls

vars == <<environ, args, pc, err, deplist, partitions, is_ood, frame, idx,
          job_ids, running, calls, sleeps>>

\* one finished subprocess
Call(argv, input, env, proc) ==
    [argv |-> argv, input |-> input, env |-> env,
     returncode |-> proc.returncode, stdout |-> proc.stdout]

\* os.getenv(name)
getenv(name) == IF name \in DOMAIN environ THEN Some(environ[name]) ELSE None

(* ------------------------- inputs and environment --------------------- *)

Users == {S("nboehm"), S("jnboehm91"), S("somebody")}

Environ(u) ==
    [v \in {"USER", "WORK", "PATH"} \cup StrippedVars |->
        CASE v = "USER" -> u
          [] v = "WORK" -> <<"/", "work">>
          [] v = "PATH" -> <<"/", "usr", "/", "bin">>
          [] v = "MAKEFLAGS" -> <<"-j", "4">>
          [] OTHER -> <<"3">>]

A_OUT == <<"/", "work", "/", "a.out">>

B_OUT == <<".", "/", "b.out">>

C_OUT == <<"/", "work", "/", "..", "/", "tmp", "/", "c.out">>

DepStrings == {A_OUT, B_OUT, C_OUT}

SeqsUpTo(set, n) == UNION {[1..k -> set] : k \in 0..n}

DepChoices ==
    {List(s) : s \in SeqsUpTo(DepStrings, MaxTargets)}
    \cup {Scalar(d) : d \in DepStrings}

\* number of targets the argument names
NumTargets(d) == IF d.list THEN Len(d.val) ELSE 1

PartPatternA(k) ==
    [i \in 1..k |-> IF i % 2 = 1 THEN Some(S("gpu-v100")) ELSE Some(S("cpu-short"))]

PartPatternB(k) ==
    [i \in 1..k |-> CASE i % 3 = 1 -> Some(S("gpu-2080ti-interactive"))
                      [] i % 3 = 2 -> None
                      [] OTHER     -> Some(S("gpu-2080ti-dev"))]

PartitionChoices(n) ==
    {Scalar(None), Scalar(Some(S("cpu-short"))), Scalar(Some(S("gpu-v100")))}
    \cup {List(PartPatternA(k)) : k \in {n - 1, n, n + 1} \cap Nat}
    \cup {List(PartPatternB(n))}

CpuChoices(n) == {Scalar(None), Scalar(Some(8)), List([i \in 1..n |-> Some(i)])}

MemChoices(n) ==
    {Scalar(None), Scalar(Some(<<"10", "G">>)),
     List([i \in 1..n |-> Some(<<ToString(i), "G">>)])}

TimeChoices(n) ==
    {Scalar(None), Scalar(Some(<<"3-00", ":00">>)),
     List([i \in 1..n |-> Some(<<ToString(i), ":00">>)])}

NameChoices(n) ==
    {Scalar(None), Scalar(Some(S("job"))),
     List([i \in 1..n |-> Some(<<"n", ToString(i)>>)])}

ArgChoices ==
    UNION {[deplist : {d},
            partition : PartitionChoices(NumTargets(d)),
            n_cpus : CpuChoices(NumTargets(d)),
            mem : MemChoices(NumTargets(d)),
            time_str : TimeChoices(NumTargets(d)),
            name : NameChoices(NumTargets(d))] : d \in DepChoices}

\* what redo-ood may answer
OodResults ==
    {[returncode |-> 0, stdout |-> <<>>],
     [returncode |-> 0, stdout |-> A_OUT \o <<"\n">>],
     [returncode |-> 0, stdout |-> <<"b.out", "\n">>],
     [returncode |-> 0, stdout |-> A_OUT \o <<"\n", "b.out", "\n">>],
     [returncode |-> 0, stdout |-> B_OUT \o <<"\n">> \o A_OUT],
     [returncode |-> 1, stdout |-> <<>>]}

\* what sbatch may answer to the k-th submission
SbatchResults(k) ==
    {[returncode |-> 0, stdout |-> <<"Submitted batch job ", "4", ToString(k), "\n">>],
     [returncode |-> 1, stdout |-> <<>>],
     [returncode |-> 0, stdout |-> <<"sbatch: error", "\n">>]}

\* what squeue may answer
SqueueResults ==
    {[returncode |-> 0, stdout |-> <<>>],
     [returncode |-> 0, stdout |-> <<"41 cpu-short redo00 R", "\n">>],
     [returncode |-> 1, stdout |-> <<>>]}

\* exit codes of redo-ifchange
RedoResults == {[returncode |-> 0, stdout |-> <<>>], [returncode |-> 1, stdout |-> <<>>]}

NoFrame ==
    [names |-> <<>>, deplist |-> <<>>, partition |-> <<>>, n_cpus |-> <<>>,
     mem |-> <<>>, time_str |-> <<>>]

Init ==
    /\ environ \in {Environ(u) : u \in Users}
    /\ args \in ArgChoices
    /\ pc = "start"
    /\ err = None
    /\ deplist = args.deplist
    /\ partitions = <<>>
    /\ is_ood = <<>>
    /\ frame = NoFrame
    /\ idx = 0
    /\ job_ids = <<>>
    /\ running = <<>>
    /\ calls = <<>>
    /\ sleeps = 0

(* ------------------------------ actions ------------------------------- *)

Raise(e) == pc' = "error" /\ err' = Some(e)

\* the items a for loop or zip takes from deplist: the entries of a list, the
\* characters of a str
iter_items(d) == IF d.list THEN d.val ELSE [i \in DOMAIN d.val |-> <<d.val[i]>>]

\* mutant: the cin branch as the else branch
cin_branch_else(user) == user # Some(S("jnboehm91"))

\* line 27: user == "nboehm"
cin_branch(user) == user = Some(S("nboehm"))

\* line 47: user == "jnboehm91"
mlcloud_branch(user) == user = Some(S("jnboehm91"))

\* lines 26-27, 47, 74-75: no branch for this user
UnknownUser ==
    /\ pc = "start"
    /\ ~cin_branch(getenv("USER"))
    /\ ~mlcloud_branch(getenv("USER"))
    /\ Raise("ValueError")
    /\ UNCHANGED <<running, environ, args, deplist, partitions, is_ood, frame, idx,
                   job_ids, calls, sleeps>>

\* lines 27-31: the cin branch, partitions
LocalBegin ==
    /\ pc = "start"
    /\ cin_branch(getenv("USER"))
    /\ partitions' = broadcast(args.partition, Len(deplist.val))
    /\ idx' = 0
    /\ pc' = "local_gpu"
    /\ UNCHANGED <<running, environ, args, err, deplist, is_ood, frame, job_ids, calls, sleeps>>

\* mutant: subprocess.Popen for subprocess.call, the process is not waited for
call_pc_popen(wait_pc, next_pc) == next_pc

\* line 11: subprocess.call returns when the process it started has exited;
\* until then the caller is at wait_pc, afterwards at next_pc
call_pc(wait_pc, next_pc) == wait_pc

\* line 11: a process started by subprocess.call, with the environment it inherits
Started(argv) == [argv |-> argv, env |-> environ]

\* rounds of zip(deplist, partitions)
local_len == Min(Len(iter_items(deplist)), Len(partitions))

\* lines 33-37: the next redo_ifchange(dep) of the comprehension is started
LocalGpu ==
    /\ pc = "local_gpu"
    /\ \E j \in (idx + 1)..local_len :
         /\ _is_gpu_partition(partitions[j])
         /\ \A l \in (idx + 1)..(j - 1) : ~_is_gpu_partition(partitions[l])
         /\ running' = Append(running,
                Started(redo_argv(Scalar(iter_items(deplist)[j]), "redo-ifchange")))
         /\ idx' = j
    /\ pc' = call_pc("local_gpu_wait", "local_gpu")
    /\ UNCHANGED <<environ, args, err, deplist, partitions, is_ood, frame,
                   job_ids, calls, sleeps>>

\* lines 39-45: the comprehension is exhausted; one redo_ifchange on the rest
LocalRest ==
    /\ pc = "local_gpu"
    /\ \A j \in (idx + 1)..local_len : ~_is_gpu_partition(partitions[j])
    /\ LET items == iter_items(deplist)
           keep  == [j \in 1..local_len |-> ~_is_gpu_partition(partitions[j])]
       IN  running' = Append(running,
               Started(redo_argv(List(zip_filter(SubSeq(items, 1, local_len), keep)),
                                 "redo-ifchange")))
    /\ idx' = local_len
    /\ pc' = call_pc("local_rest_wait", "done")
    /\ UNCHANGED <<environ, args, err, deplist, partitions, is_ood, frame,
                   job_ids, calls, sleeps>>

\* mutant: any() for all()
paths_ok_any(paths, workdir) ==
    \E i \in DOMAIN paths : is_relative_to(resolve(paths[i]), workdir)

\* lines 53-55: the asserted condition
paths_ok(paths, workdir) ==
    \A i \in DOMAIN paths : is_relative_to(resolve(paths[i]), workdir)

\* lines 47-55: the mlcloud branch up to the assertion
RemoteBegin ==
    /\ pc = "start"
    /\ ~cin_branch(getenv("USER"))
    /\ mlcloud_branch(getenv("USER"))
    /\ LET given   == IF ~deplist.list THEN <<deplist.val>> ELSE deplist.val
           paths   == [i \in DOMAIN given |-> Path(given[i])]
           workdir == Path(Get(getenv("WORK")))
       IN  /\ deplist' = List(paths)
           /\ IF paths_ok(paths, workdir)
              THEN pc' = "ood" /\ err' = err
              ELSE Raise("AssertionError")
    /\ UNCHANGED <<running, environ, args, partitions, is_ood, frame, idx, job_ids,
                   calls, sleeps>>

\* lines 57, 78-86: is_ood = _redo_ood_list(deplist)
OodList ==
    /\ pc = "ood"
    /\ \E proc \in OodResults :
         /\ calls' = Append(calls,
                Call(<<S("redo-ood")>> \o [i \in DOMAIN deplist.val |-> str_path(deplist.val[i])],
                     None, environ, proc))
         /\ is_ood' = _redo_ood_list(deplist.val, proc)
    /\ pc' = "launch"
    /\ UNCHANGED <<running, environ, args, err, deplist, partitions, frame, idx, job_ids, sleeps>>

\* mutant: names is passed on as the caller gave it, not filtered
launch_frame_names_unfiltered(a, dl, ood) ==
    LET d == _redo_filter_list(dl, ood).val
        n == Len(d)
    IN  [deplist   |-> d,
         partition |-> broadcast(_redo_filter_list(a.partition, ood), n),
         n_cpus    |-> broadcast(_redo_filter_list(a.n_cpus, ood), n),
         mem       |-> broadcast(a.mem, n),
         time_str  |-> broadcast(_redo_filter_list(a.time_str, ood), n),
         names     |-> job_names(a.name, Len(dl.val))]

\* the parameters _slurm_launch_and_wait works with: the arguments built on
\* lines 59-65, then lines 106-117
launch_frame(a, dl, ood) ==
    LET d == _redo_filter_list(dl, ood).val
        n == Len(d)
    IN  [deplist   |-> d,
         partition |-> broadcast(_redo_filter_list(a.partition, ood), n),
         n_cpus    |-> broadcast(_redo_filter_list(a.n_cpus, ood), n),
         mem       |-> broadcast(a.mem, n),
         time_str  |-> broadcast(_redo_filter_list(a.time_str, ood), n),
         names     |-> job_names(_redo_filter_list(a.name, ood), n)]

\* lines 58-66 and 106-120: the call of _slurm_launch_and_wait, up to the loop
Launch ==
    /\ pc = "launch"
    /\ frame' = launch_frame(args, deplist, is_ood)
    /\ job_ids' = <<>>
    /\ idx' = 0
    /\ pc' = IF zip_len(frame') = 0 THEN "poll" ELSE "submit"
    /\ UNCHANGED <<running, environ, args, err, deplist, partitions, is_ood, calls, sleeps>>

\* lines 175-180: the exception a finished sbatch raises, or None; subscripting
\* the None of a failed re.match is a TypeError
submit_error(proc) ==
    IF proc.returncode # 0 THEN Some("RuntimeError")
    ELSE IF re_match_job(proc.stdout) = None THEN Some("TypeError")
    ELSE None

\* mutant: env = os.environ without the copy, the pops act on os.environ
environ_after_pops_shared(env) == clean_env(env)

\* lines 143-148: os.environ after a round of the loop; the pops act on the copy
environ_after_pops(env) == env

\* lines 122-182: one round of the submission loop
Submit ==
    /\ pc = "submit"
    /\ idx < zip_len(frame)
    /\ LET k == idx + 1 IN
       \E proc \in SbatchResults(k) :
         /\ calls' = Append(calls,
                Call(sbatch_argv(frame.names[k], frame.partition[k], frame.n_cpus[k],
                                 frame.mem[k], frame.time_str[k]),
                     Some(job_script(frame.deplist[k])), clean_env(environ), proc))
         /\ IF submit_error(proc) # None
            THEN Raise(Get(submit_error(proc))) /\ UNCHANGED <<job_ids, idx>>
            ELSE /\ job_ids' = Append(job_ids, Get(re_match_job(proc.stdout)))
                 /\ idx' = k
                 /\ pc' = IF k = zip_len(frame) THEN "poll" ELSE "submit"
                 /\ err' = err
    /\ environ' = environ_after_pops(environ)
    /\ UNCHANGED <<running, args, deplist, partitions, is_ood, frame, sleeps>>

\* mutant: the loop is never entered
poll_again_never(output) == FALSE

\* mutant: >= 0 for > 0
poll_again_always(output) == Len(output) >= 0

\* lines 189-206: the test of the while loop, on the output of squeue
poll_again(output) == Len(output) > 0

\* lines 186-206: one status query and the test of the while loop
Poll ==
    /\ pc = "poll"
    /\ LET names_str == str_join(",", [i \in DOMAIN frame.names |-> Get(frame.names[i])])
           jobs_str  == str_join(",", job_ids)
       IN  \E proc \in SqueueResults :
             /\ Len(proc.stdout) > 0 => sleeps < MaxPolls
             /\ calls' = Append(calls,
                    Call(squeue_argv(Get(getenv("USER")), jobs_str, names_str),
                         None, environ, proc))
             /\ IF proc.returncode # 0
                THEN Raise("CalledProcessError")
                ELSE /\ pc' = IF poll_again(proc.stdout) THEN "sleep" ELSE "reconcile"
                     /\ err' = err
    /\ UNCHANGED <<running, environ, args, deplist, partitions, is_ood, frame, idx,
                   job_ids, sleeps>>

\* line 207
Sleep ==
    /\ pc = "sleep"
    /\ sleeps' = sleeps + 1
    /\ pc' = "poll"
    /\ UNCHANGED <<running, environ, args, err, deplist, partitions, is_ood, frame, idx,
                   job_ids, calls>>

\* mutant: only the targets that were submitted
reconcile_list_stale == frame.deplist

\* line 72: the list given to redo_ifchange, the whole deplist of line 50
reconcile_list == deplist.val

\* line 72: redo_ifchange(deplist) is started
Reconcile ==
    /\ pc = "reconcile"
    /\ running' = Append(running,
           Started(redo_argv(List([i \in DOMAIN reconcile_list |->
                                       str_path(reconcile_list[i])]),
                             "redo-ifchange")))
    /\ pc' = call_pc("reconcile_wait", "done")
    /\ UNCHANGED <<environ, args, err, deplist, partitions, is_ood, frame, idx,
                   job_ids, calls, sleeps>>

\* lines 11, 34, 39, 72: a process started by subprocess.call exits; its exit
\* code is what redo_ifchange returns, and no caller reads it
CallReturns ==
    /\ running # <<>>
    /\ \E proc \in RedoResults :
         calls' = Append(calls,
             Call(Head(running).argv, None, Head(running).env, proc))
    /\ running' = Tail(running)
    /\ pc' = CASE pc = "local_gpu_wait"  -> "local_gpu"
               [] pc = "local_rest_wait" -> "done"
               [] pc = "reconcile_wait"  -> "done"
               [] OTHER                  -> pc
    /\ UNCHANGED <<environ, args, err, deplist, partitions, is_ood, frame, idx,
                   job_ids, sleeps>>

Next ==
    \/ UnknownUser
    \/ LocalBegin
    \/ LocalGpu
    \/ LocalRest
    \/ RemoteBegin
    \/ OodList
    \/ Launch
    \/ Submit
    \/ Poll
    \/ Sleep
    \/ Reconcile
    \/ CallReturns

Spec == Init /\ [][Next]_vars

(* ------------- the classification of partitions, exercised ------------ *)

\* partition values given to _is_gpu_partition: every name of its list, the
\* name commented out of it, names it never held, and None
ClassifyPartitions ==
    {None}
    \cup {Some(S(n)) : n \in {"gpu-2080ti", "gpu-2080ti-dev", "gpu-2080ti-preemptable",
                              "gpu-2080ti-interactive", "gpu-v100",
                              "gpu-v100-preemptable", "cpu-short", "gpu-a100"}}

\* calls of the local branch: one to MaxTargets targets, a partition for all
\* of them or one for each
ClassifyArgs ==
    UNION {[deplist : {List(s)},
            partition : {Scalar(p) : p \in ClassifyPartitions}
                        \cup {List(l) : l \in [1..Len(s) -> ClassifyPartitions]},
            n_cpus : {Scalar(None)}, mem : {Scalar(None)},
            time_str : {Scalar(None)}, name : {Scalar(None)}]
           : s \in SeqsUpTo({A_OUT, B_OUT}, MaxTargets) \ {<<>>}}

InitClassify ==
    /\ environ = Environ(S("nboehm"))
    /\ args \in ClassifyArgs
    /\ pc = "start"
    /\ err = None
    /\ deplist = args.deplist
    /\ partitions = <<>>
    /\ is_ood = <<>>
    /\ frame = NoFrame
    /\ idx = 0
    /\ job_ids = <<>>
    /\ running = <<>>
    /\ calls = <<>>
    /\ sleeps = 0

\* lines 27-45: the branch that classifies every partition, twice
NextClassify ==
    \/ LocalBegin
    \/ LocalGpu
    \/ LocalRest
    \/ CallReturns

SpecClassify == InitClassify /\ [][NextClassify]_vars

(* -------------------- the scheduler branch, scheduled ----------------- *)

\* calls of the scheduler branch with all targets in the workspace and one
\* partition for all of them
PollerArgs ==
    [deplist : {List(s) : s \in SeqsUpTo({A_OUT, B_OUT}, MaxTargets)},
     partition : {Scalar(Some(S("cpu-short")))},
     n_cpus : {Scalar(None)}, mem : {Scalar(None)},
     time_str : {Scalar(None)}, name : {Scalar(None)}]

InitPoller ==
    /\ environ = Environ(S("jnboehm91"))
    /\ args \in PollerArgs
    /\ pc = "start"
    /\ err = None
    /\ deplist = args.deplist
    /\ partitions = <<>>
    /\ is_ood = <<>>
    /\ frame = NoFrame
    /\ idx = 0
    /\ job_ids = <<>>
    /\ running = <<>>
    /\ calls = <<>>
    /\ sleeps = 0

\* lines 47-72: the steps of the scheduler branch
NextPoller ==
    \/ RemoteBegin
    \/ OodList
    \/ Launch
    \/ Submit
    \/ Poll
    \/ Sleep
    \/ Reconcile
    \/ CallReturns

\* the interpreter runs the next statement when there is one, and a started
\* process exits: time.sleep(1) returns (line 207) and subprocess.call and
\* check_output wait for a process that ends (lines 11, 189)
SpecPoller == InitPoller /\ [][NextPoller]_vars /\ WF_vars(NextPoller)

(* ------------------------ observers of a run -------------------------- *)

IsCmd(c, exe) == c.argv[1] = S(exe)

Positions(exe) == {p \in DOMAIN calls : IsCmd(calls[p], exe)}

Submissions == SelectSeq(calls, LAMBDA c : IsCmd(c, "sbatch"))

Queries == SelectSeq(calls, LAMBDA c : IsCmd(c, "squeue"))

\* the call runs the scheduler profile
Remote == getenv("USER") = Some(S("jnboehm91"))

\* the target list the caller gave, a single str counting as a list of one
Targets == IF args.deplist.list THEN args.deplist.val ELSE <<args.deplist.val>>

\* the path string of a target
PathString(t) == str_path(Path(t))

\* the staleness filter has answered
Filtered == Remote /\ pc \notin {"start", "ood"} /\ calls # <<>>

\* the indices of the targets marked stale, in target-list order
StaleIdx == SelectSeq([i \in DOMAIN is_ood |-> i], LAMBDA i : is_ood[i])

\* the value the caller gave for target i in a scalar-or-list argument
Given(x, i) == IF x.list THEN x.val[i] ELSE x.val

\* the value following a flag in an argument list, or None
FlagValue(argv, flag) ==
    IF \E p \in 1..(Len(argv) - 1) : argv[p] = S(flag)
    THEN Some(argv[(CHOOSE p \in 1..(Len(argv) - 1) : argv[p] = S(flag)) + 1])
    ELSE None

\* the target a job script names
ScriptTarget(c) == SubSeq(Get(c.input), 4, Len(Get(c.input)) - 2)

\* a submission that sbatch rejected or whose acknowledgement does not parse
FailedSubmission(c) ==
    /\ IsCmd(c, "sbatch")
    /\ \/ c.returncode # 0
       \/ ~(/\ Len(c.stdout) >= 2
            /\ c.stdout[1] = "Submitted batch job "
            /\ c.stdout[2] \in Digits)

PartitionMismatch ==
    args.partition.list /\ Len(args.partition.val) # Len(Targets)

(* ------------------------------- claims ------------------------------- *)

\* C1: in remote dispatch, a per-target partition list whose length differs
\* from the number of targets makes the call fail before any sbatch
\* submission: no submission is ever made and the call never reaches the
\* submission loop, the polling or the reconciliation.
C1_LengthMismatchFails ==
    (Remote /\ PartitionMismatch) =>
        /\ Submissions = <<>>
        /\ pc \in {"start", "ood", "launch", "error"}

\* C2: in remote dispatch with list arguments as long as the target list, the
\* submission of the i-th original target carries the i-th entry of every
\* list argument (the scalar, for a scalar argument): partition, CPU count,
\* memory, time limit and, when the caller named the jobs, job name.
C2_JobCarriesItsTargetsParameters ==
    (Filtered /\ ~PartitionMismatch) =>
        \A j \in DOMAIN Submissions :
            LET i    == StaleIdx[j]
                argv == Submissions[j].argv
                cpu  == Given(args.n_cpus, i)
            IN  /\ FlagValue(argv, "--partition") = Given(args.partition, i)
                /\ FlagValue(argv, "--cpus-per-task")
                       = (IF cpu = None THEN None ELSE Some(<<ToString(Get(cpu))>>))
                /\ FlagValue(argv, "--mem") = Given(args.mem, i)
                /\ FlagValue(argv, "--time") = Given(args.time_str, i)
                /\ (args.name # Scalar(None)) =>
                       FlagValue(argv, "--job-name") = Given(args.name, i)

\* C3: in remote dispatch the job scripts submitted so far name, one each and
\* in order, the first targets the staleness filter marked stale, and once
\* the submission loop has ended with every submission accepted they name
\* exactly the stale targets: no stale target is left out, none that is up to
\* date is submitted, none is submitted twice.
C3_SubmissionsAreTheStaleTargets ==
    Filtered =>
        /\ Len(Submissions) <= Len(StaleIdx)
        /\ \A j \in DOMAIN Submissions :
               ScriptTarget(Submissions[j]) = PathString(Targets[StaleIdx[j]])
        /\ pc \in {"poll", "sleep", "reconcile", "reconcile_wait", "done"} =>
               Len(Submissions) = Len(StaleIdx)

\* C4: in remote dispatch a failed submission (non-zero exit of sbatch, or an
\* acknowledgement that is not 'Submitted batch job <digits>') is the last
\* subprocess of the call: the call has ended with an exception, and no
\* submission, status query, build-tool call or cancellation follows it.
C4_FailedSubmissionAborts ==
    \A p \in DOMAIN calls :
        FailedSubmission(calls[p]) =>
            /\ p = Len(calls)
            /\ pc = "error"
            /\ err \in {Some("RuntimeError"), Some("TypeError")}
            /\ ~ENABLED Next

\* C4 witness: the second submission is answered with text that is no
\* acknowledgement, after a first one that was accepted.
C4_Witness ==
    /\ Len(Submissions) = 2
    /\ ~FailedSubmission(Submissions[1])
    /\ FailedSubmission(Submissions[2])
    /\ Submissions[2].returncode = 0

\* C5: in remote dispatch every submission precedes every status query, and
\* the reconciliation call of redo-ifchange is the last subprocess, directly
\* preceded by a status query that returned empty; every query before that
\* one returned non-empty, and the call is about to reconcile only when the
\* latest status response is empty.
C5_ReconcileAfterEmptyStatus ==
    Remote =>
        /\ \A p \in Positions("sbatch") : \A q \in Positions("squeue") : p < q
        /\ \A p \in Positions("redo-ifchange") :
               /\ p = Len(calls)
               /\ p - 1 \in Positions("squeue")
               /\ calls[p - 1].returncode = 0
               /\ calls[p - 1].stdout = <<>>
               /\ \A q \in Positions("squeue") : q < p - 1 => calls[q].stdout # <<>>
               /\ \A q \in Positions("sbatch") : q < p - 1
        /\ pc = "reconcile" =>
               /\ calls # <<>>
               /\ IsCmd(calls[Len(calls)], "squeue")
               /\ calls[Len(calls)].stdout = <<>>

\* C5 witness: two jobs were submitted, the first status response was
\* non-empty, a later one empty, and the reconciliation has run.
C5_Witness ==
    /\ Remote
    /\ pc = "done"
    /\ Len(Submissions) = 2
    /\ Len(Queries) = 2

\* C6: in remote dispatch, when the poller has returned no redo-ifchange has
\* run yet and one is due; when the call has returned, redo-ifchange was run
\* exactly once, on the path strings of all the targets the caller gave, in
\* order, whatever the staleness filter said and whatever the exit code of
\* that run.
C6_ReconcileOnceOnAllTargets ==
    Remote =>
        /\ pc = "reconcile" => (Positions("redo-ifchange") = {} /\ ENABLED Reconcile)
        /\ pc = "done" =>
               /\ Cardinality(Positions("redo-ifchange")) = 1
               /\ calls[Len(calls)].argv
                      = <<S("redo-ifchange")>>
                        \o [i \in DOMAIN Targets |-> PathString(Targets[i])]

\* C6 witness: the call has returned, one of two targets was up to date, and
\* the reconciliation run exited non-zero.
C6_Witness ==
    /\ Remote
    /\ pc = "done"
    /\ Len(Targets) = 2
    /\ Len(StaleIdx) = 1
    /\ calls[Len(calls)].returncode = 1

\* the status queries that returned a non-empty response
NonEmptyQueries == SelectSeq(Queries, LAMBDA c : c.returncode = 0 /\ c.stdout # <<>>)

\* C7: the poller stops at the first empty status response: an empty
\* response is the last query and is followed by no sleep, each non-empty
\* response by one sleep and another query; so when the poller has returned
\* after N non-empty responses it has made N+1 queries and slept N times.
C7_PollerStopsAtFirstEmpty ==
    Remote =>
        /\ \A q \in DOMAIN Queries :
               (Queries[q].returncode = 0 /\ Queries[q].stdout = <<>>) =>
                   (q = Len(Queries) /\ pc \in {"reconcile", "reconcile_wait", "done"})
        /\ pc = "poll" => (sleeps = Len(Queries) /\ Len(NonEmptyQueries) = Len(Queries))
        /\ pc = "sleep" => sleeps + 1 = Len(Queries)
        /\ pc \in {"reconcile", "reconcile_wait", "done"} =>
               /\ Len(Queries) = Len(NonEmptyQueries) + 1
               /\ sleeps = Len(NonEmptyQueries)

\* C7 witness: the poller has returned after at least one non-empty response.
C7_Witness ==
    /\ Remote
    /\ pc = "reconcile"
    /\ Len(NonEmptyQueries) >= 1

\* C8: every submission has the flag --gres=gpu:1 in its argument list if and
\* only if the partition the caller gave for its target is one of the five
\* GPU partitions; a target whose partition is None, non-GPU or unknown
\* (gpu-2080ti-interactive among them) is submitted without it.
C8_GpuFlagIffGpuPartition ==
    Filtered =>
        \A j \in DOMAIN Submissions :
            LET part == Given(args.partition, StaleIdx[j])
            IN  (S("--gres=gpu:1") \in Range(Submissions[j].argv))
                <=> part \in {Some(S("gpu-2080ti")), Some(S("gpu-2080ti-dev")),
                              Some(S("gpu-2080ti-preemptable")), Some(S("gpu-v100")),
                              Some(S("gpu-v100-preemptable"))}

\* C8 witness: a target on gpu-2080ti-interactive and one without partition
\* were submitted without the flag.
C8_Witness ==
    /\ Filtered
    /\ args.partition = List(<<Some(S("gpu-2080ti-interactive")), None>>)
    /\ Len(Submissions) = 2
    /\ \A j \in 1..2 : S("--gres=gpu:1") \notin Range(Submissions[j].argv)

\* l is one of the lines of the text out: it holds no newline and stands in
\* out between the start or a newline and a newline or the end
IsLineOf(l, out) ==
    /\ "\n" \notin Range(l)
    /\ \E a \in 0..Len(out) : \E b \in a..Len(out) :
           /\ SubSeq(out, a + 1, b) = l
           /\ (a = 0 \/ out[a] = "\n")
           /\ (b = Len(out) \/ out[b + 1] = "\n")

\* C9: the staleness filter answers with one boolean per target, in target
\* order; entry i is true iff redo-ood exited non-zero or the path string of
\* target i is one of the lines redo-ood printed.
C9_StalenessFilter ==
    Filtered =>
        /\ IsCmd(calls[1], "redo-ood")
        /\ DOMAIN is_ood = DOMAIN Targets
        /\ \A i \in DOMAIN Targets :
               is_ood[i] <=> \/ calls[1].returncode # 0
                             \/ IsLineOf(PathString(Targets[i]), calls[1].stdout)

\* C9 witness: redo-ood succeeded and listed the second of two targets only,
\* next to a line that is the first target's name as the caller wrote it.
C9_Witness ==
    /\ Filtered
    /\ calls[1].returncode = 0
    /\ Targets = <<B_OUT, A_OUT>>
    /\ is_ood = <<FALSE, TRUE>>
    /\ IsLineOf(B_OUT, calls[1].stdout)

\* a target that resolves outside the workspace root
Outside(t) ==
    ~is_relative_to(resolve(Path(t)), Path(Get(getenv("WORK"))))

\* C10: in remote dispatch with a target that resolves outside the workspace
\* root, no subprocess is ever started and the call ends with the assertion
\* error.
C10_OutsideWorkspaceFailsFirst ==
    (Remote /\ \E i \in DOMAIN Targets : Outside(Targets[i])) =>
        /\ calls = <<>>
        /\ pc \in {"start", "error"}
        /\ pc = "error" => err = Some("AssertionError")

\* C10 witness: the call failed on a list whose first target is inside the
\* workspace and whose second is outside.
C10_Witness ==
    /\ Remote
    /\ pc = "error"
    /\ Len(Targets) = 2
    /\ ~Outside(Targets[1])
    /\ Outside(Targets[2])

\* the call runs the local-only profile
Local == getenv("USER") = Some(S("nboehm"))

\* s is an initial segment of t
IsPrefix(s, t) == Len(s) <= Len(t) /\ s = SubSeq(t, 1, Len(s))

\* the five partition names the specification fixes as GPU-class
FiveGpuNames ==
    {S("gpu-2080ti"), S("gpu-2080ti-dev"), S("gpu-2080ti-preemptable"),
     S("gpu-v100"), S("gpu-v100-preemptable")}

\* target i was given a GPU-class partition
GpuClass(i) == \E g \in FiveGpuNames : Given(args.partition, i) = Some(g)

\* the indices of the targets, in list order
TargetIdx == [i \in DOMAIN Targets |-> i]

TargetsAt(ix) == [k \in DOMAIN ix |-> Targets[ix[k]]]

\* the local invocations the policy prescribes: one per GPU-class target, in
\* list order, then one on the remaining targets together
LocalPlan ==
    LET gpu  == SelectSeq(TargetIdx, GpuClass)
        rest == SelectSeq(TargetIdx, LAMBDA i : ~GpuClass(i))
    IN  [k \in DOMAIN gpu |-> <<S("redo-ifchange"), Targets[gpu[k]]>>]
        \o <<(<<S("redo-ifchange")>> \o TargetsAt(rest))>>

\* the argument lists of the build-tool processes started so far, finished
\* ones first
StartedArgv ==
    [k \in DOMAIN calls |-> calls[k].argv] \o [k \in DOMAIN running |-> running[k].argv]

\* C11: in the local-only mode, with a list of targets and a partition for
\* each of them, the invocations started so far are an initial segment of:
\* one invocation per GPU-class target on that target alone, in list order,
\* then one invocation on all the other targets; at most one invocation is
\* running at any time, and a returned call has made all of them.
C11_LocalInvocationsSequential ==
    (Local /\ args.deplist.list /\ ~PartitionMismatch) =>
        /\ Len(running) <= 1
        /\ IsPrefix(StartedArgv, LocalPlan)
        /\ pc = "done" => (running = <<>> /\ StartedArgv = LocalPlan)

\* C11 witness: the call returned after running the GPU target /work/a.out
\* alone and then the non-GPU target ./b.out.
C11_Witness ==
    /\ Local
    /\ pc = "done"
    /\ Targets = <<A_OUT, B_OUT>>
    /\ args.partition = List(<<Some(S("gpu-v100")), Some(S("cpu-short"))>>)
    /\ Len(calls) = 2

\* C12: in the local-only mode a build-tool invocation that exited non-zero
\* is the last one the call made: nothing is running or started after it and
\* the call has ended in an error.
C12_LocalFailureIsFatal ==
    Local =>
        \A k \in DOMAIN calls :
            (IsCmd(calls[k], "redo-ifchange") /\ calls[k].returncode # 0) =>
                /\ k = Len(calls)
                /\ running = <<>>
                /\ pc = "error"

\* scenario A: remote dispatch of the single target /work/a.out on cpu-short,
\* nothing else given, and the oracle has listed the target as out of date
ScenarioA ==
    /\ Remote
    /\ args = [deplist |-> List(<<A_OUT>>),
               partition |-> Scalar(Some(S("cpu-short"))),
               n_cpus |-> Scalar(None), mem |-> Scalar(None),
               time_str |-> Scalar(None), name |-> Scalar(None)]
    /\ Filtered
    /\ calls[1].returncode = 0
    /\ IsLineOf(A_OUT, calls[1].stdout)

\* C13: in scenario A every submission is sbatch --partition cpu-short
\* --job-name redo00 with the script of /work/a.out and there is at most one;
\* past the submission loop there is exactly one; a returned call has made,
\* in this order, the oracle call, the one submission, status queries of which
\* the last and only the last came back empty, and one redo-ifchange on
\* [/work/a.out].
C13_ScenarioA ==
    ScenarioA =>
        /\ Len(Submissions) <= 1
        /\ \A k \in DOMAIN Submissions :
               /\ Submissions[k].argv =
                      <<S("sbatch"), S("--partition"), S("cpu-short"),
                        S("--job-name"), <<"redo", "0", "0">>>>
               /\ ScriptTarget(Submissions[k]) = A_OUT
        /\ pc \in {"poll", "sleep", "reconcile", "reconcile_wait", "done"} =>
               Len(Submissions) = 1
        /\ Positions("redo-ifchange") # {} => pc = "done"
        /\ pc = "done" =>
               LET n == Len(calls)
               IN  /\ n >= 4
                   /\ IsCmd(calls[1], "redo-ood")
                   /\ IsCmd(calls[2], "sbatch")
                   /\ \A k \in 3..(n - 1) :
                          /\ IsCmd(calls[k], "squeue")
                          /\ calls[k].returncode = 0
                          /\ (calls[k].stdout = <<>>) <=> (k = n - 1)
                   /\ calls[n].argv = <<S("redo-ifchange"), A_OUT>>
                   /\ running = <<>>

\* C13 witness: scenario A returned after one busy and one empty status query.
C13_Witness ==
    /\ ScenarioA
    /\ pc = "done"
    /\ Len(Queries) = 2
    /\ sleeps = 1

\* the number of targets given a GPU-class partition
NumGpuClass == Len(SelectSeq(TargetIdx, GpuClass))

\* C14: _is_gpu_partition is true of a partition exactly when it is one of
\* gpu-2080ti, gpu-2080ti-dev, gpu-2080ti-preemptable, gpu-v100,
\* gpu-v100-preemptable, hence false of None, of gpu-2080ti-interactive and of
\* unknown names; classifying leaves the partitions as the caller gave them;
\* and both classifications of a target agree: a returned local call has run
\* one invocation per GPU-class target and put exactly the others in the last.
C14_GpuClassification ==
    /\ \A i \in DOMAIN partitions :
           /\ _is_gpu_partition(partitions[i]) <=>
                  (\E g \in FiveGpuNames : partitions[i] = Some(g))
           /\ partitions[i] \in {None, Some(S("gpu-2080ti-interactive")),
                                 Some(S("cpu-short")), Some(S("gpu-a100"))} =>
                  ~_is_gpu_partition(partitions[i])
    /\ pc # "start" => partitions = broadcast(args.partition, Len(Targets))
    /\ pc = "done" =>
           /\ Len(calls) = NumGpuClass + 1
           /\ Len(calls[Len(calls)].argv) = 1 + Len(Targets) - NumGpuClass

\* C14 witness: a returned local call that classified gpu-v100-preemptable as
\* GPU and gpu-2080ti-interactive as not.
C14_Witness ==
    /\ pc = "done"
    /\ partitions = <<Some(S("gpu-v100-preemptable")), Some(S("gpu-2080ti-interactive"))>>
    /\ Len(calls) = 2
    /\ Len(calls[2].argv) = 2

\* a status query has come back empty
EmptyStatusSeen ==
    \E k \in DOMAIN Queries : Queries[k].returncode = 0 /\ Queries[k].stdout = <<>>

\* status queries were made and every one came back non-empty
AllStatusBusy ==
    /\ Queries # <<>>
    /\ \A k \in DOMAIN Queries : Queries[k].returncode = 0 /\ Queries[k].stdout # <<>>

\* C15: once a status query has come back empty the call goes on to
\* reconcile and returns; the call reconciles or returns only after an empty
\* status response; and for as long as every status response is non-empty the
\* call is in the polling loop, whatever the number of queries made: it
\* neither reconciles nor ends.
C15_PollerExitsOnlyOnEmptyStatus ==
    /\ EmptyStatusSeen ~> (pc = "done" /\ running = <<>>)
    /\ [](pc \in {"reconcile", "reconcile_wait", "done"} => EmptyStatusSeen)
    /\ [](AllStatusBusy => pc \in {"poll", "sleep"})

\* C15 witness: the call returned after as many non-empty status responses as
\* the model allows and then an empty one.
C15_Witness ==
    /\ Remote
    /\ pc = "done"
    /\ sleeps = MaxPolls
    /\ EmptyStatusSeen
    /\ Len(Queries) = MaxPolls + 1

\* the staleness oracle exited non-zero
OracleFailed == Filtered /\ IsCmd(calls[1], "redo-ood") /\ calls[1].returncode # 0

\* C16: in remote dispatch, after redo-ood exited non-zero, every target is
\* marked stale; the call has not failed unless a later sbatch or squeue
\* failed; and once the submission loop is over the submitted scripts name
\* every target of the list, in order, each once.
C16_OracleFailureSubmitsAll ==
    OracleFailed =>
        /\ Len(is_ood) = Len(Targets)
        /\ \A i \in DOMAIN is_ood : is_ood[i]
        /\ pc = "error" =>
               /\ Len(calls) >= 2
               /\ \/ FailedSubmission(calls[Len(calls)])
                  \/ (IsCmd(calls[Len(calls)], "squeue") /\ calls[Len(calls)].returncode # 0)
        /\ pc \in {"poll", "sleep", "reconcile", "reconcile_wait", "done"} =>
               [k \in DOMAIN Submissions |-> ScriptTarget(Submissions[k])]
                   = [i \in DOMAIN Targets |-> PathString(Targets[i])]

\* the job identifier in the acknowledgement of a submission
AckId(c) == SelectSeq(c.stdout, LAMBDA t : t \in Digits)

\* C17: in remote dispatch every status query names the user of the call
\* after --user, after --jobs the identifiers acknowledged to this call's
\* submissions, in submission order, and after --name the job names of these
\* submissions, in submission order, and nothing else; hence all queries of
\* a call have the same scope.
C17_StatusQueryScope ==
    Remote =>
        \A q \in DOMAIN Queries :
            /\ FlagValue(Queries[q].argv, "--user") = getenv("USER")
            /\ FlagValue(Queries[q].argv, "--jobs") =
                   Some(str_join(",", [k \in DOMAIN Submissions |-> AckId(Submissions[k])]))
            /\ FlagValue(Queries[q].argv, "--name") =
                   Some(str_join(",", [k \in DOMAIN Submissions |->
                            Get(FlagValue(Submissions[k].argv, "--job-name"))]))

\* USER names neither deployment profile
UnknownProfile == getenv("USER") \notin {Some(S("nboehm")), Some(S("jnboehm91"))}

\* C18: with a USER that is neither nboehm nor jnboehm91 no subprocess is
\* ever started or finished, and the call is either not yet begun or has
\* failed with ValueError.
C18_UnknownProfileFailsAtOnce ==
    UnknownProfile =>
        /\ calls = <<>>
        /\ running = <<>>
        /\ pc \in {"start", "error"}
        /\ pc = "error" => err = Some("ValueError")

\* C18 witness: the call for two targets failed under the user somebody.
C18_Witness ==
    /\ getenv("USER") = Some(S("somebody"))
    /\ pc = "error"
    /\ err = Some("ValueError")
    /\ Len(Targets) = 2

\* the process environment the call began with
InitialEnviron == Environ(Get(getenv("USER")))

\* env is e without the four variables of the build-tool session, and equal
\* to e on every other variable
StrippedCopyOf(env, e) ==
    /\ DOMAIN env =
           (DOMAIN e) \ {"REDO_JS_FD", "MAKEFLAGS", "REDO_STATUS_FD", "REDO_DEP_FD"}
    /\ \A v \in DOMAIN env : env[v] = e[v]

\* C19: in remote dispatch every sbatch runs in the environment of the
\* dispatcher without REDO_JS_FD, MAKEFLAGS, REDO_STATUS_FD and REDO_DEP_FD
\* and otherwise unchanged; the environment of the dispatcher itself is at
\* all times the one the call began with, and every other subprocess,
\* the reconciliation after the submissions included, runs in it, with the
\* four variables.
C19_SubmissionEnvironment ==
    Remote =>
        /\ environ = InitialEnviron
        /\ {"REDO_JS_FD", "MAKEFLAGS", "REDO_STATUS_FD", "REDO_DEP_FD"} \subseteq DOMAIN environ
        /\ \A k \in DOMAIN calls :
               IF IsCmd(calls[k], "sbatch")
               THEN StrippedCopyOf(calls[k].env, InitialEnviron)
               ELSE calls[k].env = InitialEnviron
        /\ \A k \in DOMAIN running : running[k].env = InitialEnviron

\* C19 witness: two jobs were submitted without MAKEFLAGS and the
\* reconciliation then ran with it.
C19_Witness ==
    /\ Remote
    /\ pc = "done"
    /\ Len(Submissions) = 2
    /\ "MAKEFLAGS" \notin DOMAIN Submissions[2].env
    /\ IsCmd(calls[Len(calls)], "redo-ifchange")
    /\ "MAKEFLAGS" \in DOMAIN calls[Len(calls)].env

\* the staleness filter has marked no target stale
NoneStale == Filtered /\ \A i \in DOMAIN is_ood : ~is_ood[i]

\* C20: in remote dispatch with no target marked stale, the target list may
\* be empty, there is no submission; every status query has the empty string
\* after --jobs and after --name; redo-ifchange is started only after at
\* least one status query, the latest of which came back empty; and it is
\* started on the full target list.
C20_NothingStaleStillPolls ==
    NoneStale =>
        /\ Submissions = <<>>
        /\ \A q \in DOMAIN Queries :
               /\ FlagValue(Queries[q].argv, "--jobs") = Some(<<>>)
               /\ FlagValue(Queries[q].argv, "--name") = Some(<<>>)
        /\ (pc \in {"reconcile", "reconcile_wait", "done"} \/ running # <<>>) =>
               /\ Queries # <<>>
               /\ Queries[Len(Queries)].returncode = 0
               /\ Queries[Len(Queries)].stdout = <<>>
        /\ \A k \in DOMAIN StartedArgv :
               StartedArgv[k][1] = S("redo-ifchange") =>
                   /\ pc \in {"reconcile_wait", "done"}
                   /\ StartedArgv[k] =
                          <<S("redo-ifchange")>> \o [i \in DOMAIN Targets |-> PathString(Targets[i])]

\* C20 witness: the oracle listed neither of two targets, nothing was
\* submitted, and the call polled twice and reconciled on both.
C20_Witness ==
    /\ NoneStale
    /\ Len(Targets) = 2
    /\ pc = "done"
    /\ Submissions = <<>>
    /\ Len(Queries) = 2
    /\ Len(calls) = 4

====
